---- MODULE Spec2Model ----
(***************************************************************************)
(* Model of the okta-api-cli synchronisation and caching engine:           *)
(*   - HttpRequestClient.get      (paginated fetcher)                      *)
(*   - UsersRepository            (SQLite cache: upsert, lookup, update,   *)
(*                                 delete)                                 *)
(*   - handle_sync_users          (bulk sync orchestrator)                 *)
(*   - handle_get_user, handle_update_user, handle_delete_user,            *)
(*     handle_password_reset, list_users                                   *)
(*                                (single-record commands and listing)     *)
(*   - cli.updater                (version check and self-update)          *)
(* One behaviour is a sequence of CLI process runs over the same database  *)
(* file.  The SQLite connection is modelled by its committed state and by  *)
(* the working state seen through the connection (committed state plus     *)
(* the statements of the open implicit transaction).                       *)
(***************************************************************************)
EXTENDS Integers, Sequences, FiniteSets, TLC

(***************************************************************************)
(* Bounds of the model.                                                    *)
(***************************************************************************)
\* largest number of pages the remote collection is split into
MaxPages == 2
\* largest number of records the remote collection holds
MaxFetched == 2

(***************************************************************************)
(* JSON / Python / SQL values.                                             *)
(***************************************************************************)
\* Python None, JSON null, SQL NULL
Null == "NULL"
\* marks a key that the dictionary does not contain
Absent == "ABSENT"
\* a JSON array bound as a statement parameter: sqlite3.ProgrammingError
List == "LIST"
\* a JSON integer outside the 64 bit range: OverflowError when bound
BigInt == "BIGINT"

\* dict.get(key) on a value that is Absent when the key is missing
Get(v) == IF v = Absent THEN Null ELSE v

\* What binding one Python value as a parameter of cursor.execute does:
\* "ok", "sqlite" (a sqlite3.Error subclass) or "other" (any other exception).
Bind(v) == IF v = List THEN "sqlite" ELSE IF v = BigInt THEN "other" ELSE "ok"

\* Parameters are bound in order: the first one that cannot be bound decides.
BindAll(params) ==
    LET bad == {i \in 1..Len(params) : Bind(params[i]) # "ok"}
        first == CHOOSE i \in bad : \A j \in bad : i <= j
    IN  IF bad = {} THEN "ok" ELSE Bind(params[first])

(***************************************************************************)
(* Schema: the three tables, each a sequence of rows in rowid order.       *)
(***************************************************************************)
UserTypeRow(id) == [id |-> id]

EmptyDb == [user_types |-> <<>>, users |-> <<>>, user_profiles |-> <<>>]

\* the primary key column of each table
UserTypePk == "id"
UserPk == "id"
ProfilePk == "user_id"

\* INSERT OR REPLACE on a table with a TEXT PRIMARY KEY: a row with the same
\* (non-NULL) key is deleted, the new row is appended with a fresh rowid.
InsertOrAppend(rows, pk, row) == Append(rows, row)
InsertOrReplaceDroppingOthers(rows, pk, row) == <<row>>
InsertOrMerge(rows, pk, row) ==
    LET old == SelectSeq(rows, LAMBDA r : r[pk] = row[pk])
        merged == IF old = <<>> THEN row
                  ELSE [f \in DOMAIN row |->
                           IF row[f] = Null THEN old[1][f] ELSE row[f]]
    IN  Append(SelectSeq(rows, LAMBDA r : r[pk] # row[pk]), merged)
InsertOrReplace(rows, pk, row) ==
    Append(SelectSeq(rows, LAMBDA r : row[pk] = Null \/ r[pk] # row[pk]), row)

\* DELETE FROM table WHERE pk = key  (NULL = NULL is not true in SQL)
DeleteWhere(rows, pk, key) ==
    SelectSeq(rows, LAMBDA r : key = Null \/ r[pk] # key)

(***************************************************************************)
(* Remote records (JSON values returned by the directory service).        *)
(***************************************************************************)
ProfileFields ==
    {"reportGroupList", "firstName", "lastName", "mobilePhone",
     "portalAccessGroup", "secondEmail", "ackNewBusiness", "login", "email",
     "placementOrg"}

NoFields == [f \in ProfileFields |-> Absent]

ProfileDict(fields) == [kind |-> "dict", f |-> fields]
NullValue == [kind |-> "null"]
AbsentValue == [kind |-> "absent"]
TypeDict(id) == [kind |-> "dict", id |-> id]

\* a fetched element that is not a JSON object (a string, a number, null)
NonDict == [kind |-> "str"]

RecA1 ==
    [kind |-> "dict", id |-> "u1", status |-> "ACTIVE", created |-> "T1",
     activated |-> "T1", statusChanged |-> "T1", lastLogin |-> "T1",
     lastUpdated |-> "T1", passwordChanged |-> "T1",
     type |-> TypeDict("t1"),
     profile |-> ProfileDict(
         [reportGroupList |-> "g1", firstName |-> "A", lastName |-> "One",
          mobilePhone |-> "555", portalAccessGroup |-> "pag",
          secondEmail |-> "a2@x.com", ackNewBusiness |-> "1",
          login |-> "a@x.com", email |-> "a@x.com", placementOrg |-> "org1"])]

\* the same user after a remote change: most fields are gone, no type
RecB1 ==
    [kind |-> "dict", id |-> "u1", status |-> "SUSPENDED", created |-> Absent,
     activated |-> Absent, statusChanged |-> "T2", lastLogin |-> Null,
     lastUpdated |-> "T2", passwordChanged |-> Absent,
     type |-> AbsentValue,
     profile |-> ProfileDict(
         [NoFields EXCEPT !.firstName = "B", !.email = "b@x.com"])]

RecA2 ==
    [kind |-> "dict", id |-> "u2", status |-> "ACTIVE", created |-> "T1",
     activated |-> Absent, statusChanged |-> Absent, lastLogin |-> Absent,
     lastUpdated |-> "T1", passwordChanged |-> Absent,
     type |-> TypeDict("t1"),
     profile |-> ProfileDict(
         [NoFields EXCEPT !.firstName = "C", !.email = "a@x.com",
                          !.placementOrg = "org2"])]

\* "profile": null  -- profile.get raises AttributeError
RecNullProfile ==
    [kind |-> "dict", id |-> "u2", status |-> "ACTIVE", created |-> Absent,
     activated |-> Absent, statusChanged |-> Absent, lastLogin |-> Absent,
     lastUpdated |-> Absent, passwordChanged |-> Absent,
     type |-> TypeDict("t2"), profile |-> NullValue]

\* a list-valued reportGroupList: the profile insert raises a sqlite3.Error
RecList ==
    [kind |-> "dict", id |-> "u1", status |-> "STAGED", created |-> Absent,
     activated |-> Absent, statusChanged |-> Absent, lastLogin |-> Absent,
     lastUpdated |-> Absent, passwordChanged |-> Absent,
     type |-> TypeDict("t2"),
     profile |-> ProfileDict(
         [NoFields EXCEPT !.reportGroupList = List, !.firstName = "L"])]

\* an integer too large for SQLite in the profile: OverflowError on binding
RecBig ==
    [kind |-> "dict", id |-> "u2", status |-> "STAGED", created |-> Absent,
     activated |-> Absent, statusChanged |-> Absent, lastLogin |-> Absent,
     lastUpdated |-> Absent, passwordChanged |-> Absent,
     type |-> AbsentValue,
     profile |-> ProfileDict(
         [NoFields EXCEPT !.firstName = "D", !.ackNewBusiness = BigInt])]

DictPool == {RecA1, RecB1, RecA2, RecNullProfile, RecList, RecBig}
Pool == DictPool \cup {NonDict}
Ids == {"u1", "u2"}

(***************************************************************************)
(* UsersRepository on the process-wide connection.                         *)
(***************************************************************************)
\* user.get("type", {})
GetType(user) == IF user.type.kind = "absent" THEN TypeDict(Absent) ELSE user.type

\* user.get("profile", {})
GetProfile(user) ==
    IF user.profile.kind = "absent" THEN ProfileDict(NoFields) ELSE user.profile

\* `user_type and "id" in user_type`
HasTypeId(user_type) == user_type.kind = "dict" /\ user_type.id # Absent

UserRowOf(user, profile, user_type) ==
    [id |-> Get(user.id), status |-> Get(user.status),
     created |-> Get(user.created), activated |-> Get(user.activated),
     statusChanged |-> Get(user.statusChanged),
     lastLogin |-> Get(user.lastLogin), lastUpdated |-> Get(user.lastUpdated),
     passwordChanged |-> Get(user.passwordChanged),
     placementOrg |-> Get(profile.f.placementOrg),
     type_id |-> IF HasTypeId(user_type) THEN Get(user_type.id) ELSE Null]

UserParams(row) ==
    <<row.id, row.status, row.created, row.activated, row.statusChanged,
      row.lastLogin, row.lastUpdated, row.passwordChanged, row.placementOrg,
      row.type_id>>

ProfileRowOf(user, profile) ==
    [user_id |-> Get(user.id),
     reportGroupList |-> Get(profile.f.reportGroupList),
     firstName |-> Get(profile.f.firstName),
     lastName |-> Get(profile.f.lastName),
     mobilePhone |-> Get(profile.f.mobilePhone),
     portalAccessGroup |-> Get(profile.f.portalAccessGroup),
     secondEmail |-> Get(profile.f.secondEmail),
     ackNewBusiness |-> Get(profile.f.ackNewBusiness),
     login |-> Get(profile.f.login), email |-> Get(profile.f.email),
     placementOrg |-> Get(profile.f.placementOrg)]

ProfileParams(row) ==
    <<row.user_id, row.reportGroupList, row.firstName, row.lastName,
      row.mobilePhone, row.portalAccessGroup, row.secondEmail,
      row.ackNewBusiness, row.login, row.email, row.placementOrg>>

\* the steps of a write at which the storage can fail with a sqlite3.Error
Faults == {"none", "user_types", "users", "user_profiles", "commit"}

\* cursor.execute: the parameters are bound, then the statement changes the
\* working state unless the storage fails.
Execute(db, params, faulty, after) ==
    IF BindAll(params) # "ok" THEN [st |-> BindAll(params), db |-> db]
    ELSE IF faulty THEN [st |-> "sqlite", db |-> db]
    ELSE [st |-> "ok", db |-> after]

\* connection.commit()
Commit(res, faulty) ==
    IF res.st = "ok" /\ faulty THEN [st |-> "sqlite", db |-> res.db] ELSE res

\* The try/except of every repository write: commit makes the working state
\* durable; `except sqlite3.Error` rolls back and re-raises; any other
\* exception leaves the method with the transaction still open.
CatchSqliteError(conn, res) ==
    CASE res.st = "ok" ->
           [conn |-> [committed |-> res.db, working |-> res.db], outcome |-> "ok"]
      [] res.st = "sqlite" ->
           [conn |-> [conn EXCEPT !.working = conn.committed],
            outcome |-> "sqlite"]
      [] OTHER ->
           [conn |-> [conn EXCEPT !.working = res.db], outcome |-> "other"]

create_or_update_user(conn, user, fault) ==
    IF user.kind # "dict"
    THEN [conn |-> conn, outcome |-> "other"]
    ELSE
      LET user_type == GetType(user)
          profile == GetProfile(user)
          s1 == IF HasTypeId(user_type)
                THEN Execute(conn.working, <<user_type.id>>,
                             fault = "user_types",
                             [conn.working EXCEPT !.user_types =
                                 InsertOrReplace(@, UserTypePk,
                                                 UserTypeRow(user_type.id))])
                ELSE [st |-> "ok", db |-> conn.working]
          s2 == IF s1.st # "ok" THEN s1
                ELSE IF profile.kind # "dict"
                THEN [st |-> "other", db |-> s1.db]
                ELSE LET row == UserRowOf(user, profile, user_type)
                     IN  Execute(s1.db, UserParams(row), fault = "users",
                                 [s1.db EXCEPT !.users =
                                     InsertOrReplace(@, UserPk, row)])
          s3 == IF s2.st # "ok" THEN s2
                ELSE LET row == ProfileRowOf(user, profile)
                     IN  Execute(s2.db, ProfileParams(row),
                                 fault = "user_profiles",
                                 [s2.db EXCEPT !.user_profiles =
                                     InsertOrReplace(@, ProfilePk, row)])
      IN  CatchSqliteError(conn, Commit(s3, fault = "commit"))

delete_user_relying_on_cascade(conn, user_id, fault) ==
    LET s2 == Execute(conn.working, <<user_id>>, fault = "users",
                      [conn.working EXCEPT !.users =
                          DeleteWhere(@, UserPk, user_id)])
    IN  CatchSqliteError(conn, Commit(s2, fault = "commit"))
delete_user(conn, user_id, fault) ==
    LET s1 == Execute(conn.working, <<user_id>>, fault = "user_profiles",
                      [conn.working EXCEPT !.user_profiles =
                          DeleteWhere(@, ProfilePk, user_id)])
        s2 == IF s1.st # "ok" THEN s1
              ELSE Execute(s1.db, <<user_id>>, fault = "users",
                           [s1.db EXCEPT !.users =
                               DeleteWhere(@, UserPk, user_id)])
    IN  CatchSqliteError(conn, Commit(s2, fault = "commit"))

\* The ids get_user_by_email can return: the users joined to a profile with
\* that email.  fetchone() takes the first row of a query without ORDER BY,
\* so which of several matches is returned is up to the engine.
get_user_by_email(db, email) ==
    {db.users[i].id : i \in
        {i \in 1..Len(db.users) :
            \E j \in 1..Len(db.user_profiles) :
                /\ db.user_profiles[j].user_id = db.users[i].id
                /\ db.user_profiles[j].email = email}}

\* SELECT ... WHERE col = ?  (NULL matches nothing), in rowid order
Select(rows, col, key) ==
    SelectSeq(rows, LAMBDA r : key # Null /\ r[col] = key)

\* the profile columns of a users row that the LEFT JOIN matches with no
\* user_profiles row
NullProfile == [f \in ProfileFields |-> Null]

\* _row_to_dict: the Okta-shaped view of one joined row
_row_to_dict(u, p) ==
    [kind |-> "dict", id |-> u.id, status |-> u.status, created |-> u.created,
     activated |-> u.activated, statusChanged |-> u.statusChanged,
     lastLogin |-> u.lastLogin, lastUpdated |-> u.lastUpdated,
     passwordChanged |-> u.passwordChanged,
     type |-> IF u.type_id # Null THEN TypeDict(u.type_id) ELSE NullValue,
     profile |-> ProfileDict([f \in ProfileFields |-> p[f]])]

\* users u LEFT JOIN user_profiles p ON u.id = p.user_id, for one users row
InnerJoin(db, u) ==
    LET ps == Select(db.user_profiles, ProfilePk, u.id)
    IN  IF ps = <<>> THEN NullValue ELSE _row_to_dict(u, ps[1])
LeftJoin(db, u) ==
    LET ps == Select(db.user_profiles, ProfilePk, u.id)
    IN  IF ps = <<>> THEN _row_to_dict(u, NullProfile)
        ELSE _row_to_dict(u, ps[1])

\* get_user_by_id: the joined row of the users row with that id, or None
get_user_by_id(db, user_id) ==
    LET us == Select(db.users, UserPk, user_id)
    IN  IF us = <<>> THEN NullValue ELSE LeftJoin(db, us[1])

\* get_user_by_email: fetchone() of the joined rows whose profile has that
\* email; the set holds every row the engine may return first, None when
\* there is none
get_user_by_email_row(db, email) ==
    LET found == {i \in 1..Len(db.users) :
                     db.users[i].id \in get_user_by_email(db, email)}
    IN  IF found = {} THEN {NullValue}
        ELSE {LeftJoin(db, db.users[i]) : i \in found}

\* get_all_users: every users row joined, in the scan order of users
get_all_users(db) == [i \in 1..Len(db.users) |-> LeftJoin(db, db.users[i])]

\* a --profile payload after json.loads: an object with allow-listed keys (f)
\* and possibly a key the cache does not know
UpdateDict(fields, unknown) ==
    [kind |-> "dict", f |-> fields, unknown |-> unknown]

\* update_user_profile, lines 217-228
allowed_fields ==
    <<"reportGroupList", "firstName", "lastName", "mobilePhone",
      "portalAccessGroup", "secondEmail", "ackNewBusiness", "login", "email",
      "placementOrg">>

\* lines 230-233: the allow-listed keys the payload has, in list order
NamedFieldsUnfiltered(profile) ==
    SelectSeq(allowed_fields, LAMBDA f : profile.f[f] # Absent)
        \o (IF profile.unknown # Absent THEN <<"unknown">> ELSE <<>>)
NamedFields(profile) ==
    SelectSeq(allowed_fields, LAMBDA f : profile.f[f] # Absent)

\* UPDATE user_profiles SET field = ?, ... WHERE user_id = ?
UpdateWhereReplacingRow(rows, key, fields, profile) ==
    [i \in 1..Len(rows) |->
        IF key # Null /\ rows[i][ProfilePk] = key
        THEN [c \in DOMAIN rows[i] |->
                 IF c = ProfilePk THEN key
                 ELSE IF \E k \in 1..Len(fields) : fields[k] = c
                 THEN profile.f[c] ELSE Null]
        ELSE rows[i]]
UpdateWhere(rows, key, fields, profile) ==
    [i \in 1..Len(rows) |->
        IF key # Null /\ rows[i][ProfilePk] = key
        THEN [c \in DOMAIN rows[i] |->
                 IF \E k \in 1..Len(fields) : fields[k] = c
                 THEN profile.f[c] ELSE rows[i][c]]
        ELSE rows[i]]

\* update_user_profile (lines 199-250).  `field in profile` raises TypeError
\* when the payload is JSON null; a payload without allow-listed key returns
\* before any statement; a column the table does not have is a sqlite3.Error.
update_user_profile(conn, user_id, profile, fault) ==
    IF profile.kind # "dict" THEN [conn |-> conn, outcome |-> "other"]
    ELSE
      LET fields == NamedFields(profile)
          values == [k \in 1..Len(fields) |->
                        IF fields[k] = "unknown" THEN profile.unknown
                        ELSE profile.f[fields[k]]]
          s1 == IF \E k \in 1..Len(fields) : fields[k] = "unknown"
                THEN [st |-> "sqlite", db |-> conn.working]
                ELSE Execute(conn.working, Append(values, user_id),
                             fault = "user_profiles",
                             [conn.working EXCEPT !.user_profiles =
                                 UpdateWhere(@, user_id, fields, profile)])
      IN  IF fields = <<>> THEN [conn |-> conn, outcome |-> "noop"]
          ELSE CatchSqliteError(conn, Commit(s1, fault = "commit"))

(***************************************************************************)
(* State.                                                                  *)
(***************************************************************************)
VARIABLES
    conn,          \* the SQLite connection: [committed, working]
    pc,            \* position of the running command
    args,          \* the argparse Namespace of the running command
    url,           \* HttpRequestClient.get: _url as a page number, 0 is None
    results,       \* HttpRequestClient.get: the accumulated results
    requested,     \* history: the requests of this get, [page, status, body,
                   \*          next]
    served,        \* history: the records of the pages served, in order
    notified,      \* history: [calls, last]: the calls of cb, the last count
    users,         \* handle_sync_users: users
    idx,           \* handle_sync_users: records taken by the for loop
    synced_count,  \* handle_sync_users: synced_count
    failed_count,  \* handle_sync_users: failed_count
    log,           \* history: outcome of every repository or remote call
    connBefore,    \* history: the connection before the last repository call
    dbBefore       \* history: the committed cache when the command started

fetchVars == <<url, results, requested, served, notified>>
syncVars == <<users, idx, synced_count, failed_count>>
vars == <<conn, pc, args, fetchVars, syncVars, log, connBefore, dbBefore>>

NoArgs == [cmd |-> "none"]

(***************************************************************************)
(* HttpRequestClient.get                                                   *)
(***************************************************************************)
RECURSIVE SeqsUpTo(_, _)
\* the sequences over S of length at most n
SeqsUpTo(S, n) ==
    IF n = 0 THEN {<<>>}
    ELSE LET shorter == SeqsUpTo(S, n - 1)
         IN  shorter \cup {Append(q, x) : q \in {t \in shorter : Len(t) = n - 1},
                                          x \in S}

ListBody(items) == [kind |-> "list", items |-> items]
SingleBody(item) == [kind |-> "single", item |-> item]

\* The responses the remote can give to the request of page `page` when the
\* client has accumulated `have` records: a failure (transport error, non-2xx
\* status or a body that is not JSON), or a body with or without a rel="next"
\* link to the following page.
ResponsesOf(pool, page, have) ==
    LET room == MaxFetched - have
        bodies == {ListBody(q) : q \in SeqsUpTo(pool, room)}
                  \cup (IF room > 0 THEN {SingleBody(r) : r \in pool} ELSE {})
        links == IF page < MaxPages THEN {0, page + 1} ELSE {0}
    IN  {[status |-> "error"]}
        \cup {[status |-> "ok", body |-> b, next |-> n] : b \in bodies, n \in links}

\* the responses to a request of the collection endpoint
Responses(page, have) == ResponsesOf(Pool, page, have)

\* the records a response body carries, in order
Records(body) == IF body.kind = "list" THEN body.items ELSE <<body.item>>

\* r.json() of a response is a list or a single object (line 54); a failed
\* request has no body
BodyKind(response) ==
    IF response.status = "ok" THEN response.body.kind ELSE "none"

\* lines 56-60: a list extends the results, anything else is appended
AccumulateListsOnly(acc, body) ==
    IF body.kind = "list" THEN acc \o body.items ELSE acc
Accumulate(acc, body) ==
    IF body.kind = "list" THEN acc \o body.items ELSE Append(acc, body.item)

\* One iteration of `while _url` (lines 50-67).  raise_for_status and the
\* transport raise out of get: the accumulated results are lost with the frame.
GetIterationKeepingPartial(acc, response) ==
    IF response.status # "ok"
    THEN [raised |-> FALSE, results |-> acc, url |-> 0]
    ELSE [raised |-> FALSE, results |-> Accumulate(acc, response.body),
          url |-> response.next]
GetIterationFirstPageOnly(acc, response) ==
    IF response.status # "ok"
    THEN [raised |-> TRUE, results |-> <<>>, url |-> 0]
    ELSE [raised |-> FALSE, results |-> Accumulate(acc, response.body),
          url |-> 0]
GetIteration(acc, response) ==
    IF response.status # "ok"
    THEN [raised |-> TRUE, results |-> <<>>, url |-> 0]
    ELSE [raised |-> FALSE, results |-> Accumulate(acc, response.body),
          url |-> response.next]

\* handle_sync_users.collect_users (lines 51-54): the progress observer reads
\* the length of the list it is given, which is the list get accumulates in.
collect_users_consuming(accumulated_users, seen) ==
    [results |-> <<>>,
     notified |-> [calls |-> seen.calls + 1, last |-> Len(accumulated_users)]]
collect_users(accumulated_users, seen) ==
    [results |-> accumulated_users,
     notified |-> [calls |-> seen.calls + 1, last |-> Len(accumulated_users)]]

\* lines 62-63: `if cb: cb(results)`.  cb is Null for a fetch without observer.
Notify(cb, acc, seen) ==
    IF cb = Null THEN [results |-> acc, notified |-> seen]
    ELSE collect_users(acc, seen)

(***************************************************************************)
(* handle_sync_users                                                       *)
(***************************************************************************)
\* lines 59-63: `if not users` ends the pass with "No users found in Okta"
AfterFetchEmptyIsFailure(fetched) ==
    IF fetched = <<>> THEN "FetchFailed" ELSE "Syncing"
AfterFetch(fetched) == IF fetched = <<>> THEN "NoUsers" ELSE "Syncing"

\* `for user in users` (line 79): the record the loop takes when it has
\* taken `taken` records
NextRecordLastFirst(fetched, taken) == fetched[Len(fetched) - taken]
NextRecord(fetched, taken) == fetched[taken + 1]

\* One iteration of the for loop (lines 79-87).  The except block formats
\* user.get('id') into the log message, which raises again when the record
\* is not a dictionary; that exception leaves the loop.
SyncIterationCountingAll(c, user, synced, failed, fault) ==
    LET res == create_or_update_user(c, user, fault)
    IN  [conn |-> res.conn, outcome |-> res.outcome, synced |-> synced + 1,
         failed |-> IF res.outcome = "ok" THEN failed ELSE failed + 1,
         raised |-> res.outcome # "ok" /\ user.kind # "dict"]
SyncIteration(c, user, synced, failed, fault) ==
    LET res == create_or_update_user(c, user, fault)
    IN  IF res.outcome = "ok"
        THEN [conn |-> res.conn, outcome |-> "ok", synced |-> synced + 1,
              failed |-> failed, raised |-> FALSE]
        ELSE [conn |-> res.conn, outcome |-> res.outcome, synced |-> synced,
              failed |-> failed + 1, raised |-> user.kind # "dict"]

\* lines 36-43: the command starts and get is entered with the base URL
SyncStart ==
    /\ pc = "Idle"
    /\ pc' = "Fetching"
    /\ args' = [cmd |-> "sync"]
    /\ url' = 1
    /\ UNCHANGED <<conn, results, requested, served, notified, syncVars, log,
                   connBefore, dbBefore>>

\* One page request.  When the response has no next link, get returns and
\* the handler goes on (lines 56-63); when the request fails the exception
\* reaches the outer except of the handler (lines 94-97).
FetchPage ==
    /\ pc = "Fetching"
    /\ \E response \in Responses(url, Len(results)) :
         LET it == GetIteration(results, response)
             seen == Notify("collect_users", it.results, notified)
         IN  /\ requested' =
                    Append(requested,
                           [page |-> url, status |-> response.status,
                            body |-> BodyKind(response),
                            next |-> IF response.status = "ok"
                                     THEN response.next ELSE 0])
             /\ url' = it.url
             /\ IF it.raised
                THEN /\ pc' = "FetchFailed"
                     /\ results' = it.results
                     /\ UNCHANGED <<served, notified, users>>
                ELSE /\ served' = IF response.status = "ok"
                                   THEN served \o Records(response.body)
                                   ELSE served
                     /\ results' = seen.results
                     /\ notified' = seen.notified
                     /\ IF it.url # 0
                        THEN /\ pc' = "Fetching"
                             /\ UNCHANGED users
                        ELSE /\ users' = seen.results
                             /\ pc' = AfterFetch(seen.results)
    /\ UNCHANGED <<conn, args, idx, synced_count, failed_count, log,
                   connBefore, dbBefore>>

\* One record of the sync loop; after the last one the totals are printed.
SyncRecord ==
    /\ pc = "Syncing"
    /\ idx < Len(users)
    /\ \E fault \in Faults :
         LET it == SyncIteration(conn, NextRecord(users, idx), synced_count,
                                 failed_count, fault)
         IN  /\ conn' = it.conn
             /\ connBefore' = conn
             /\ synced_count' = it.synced
             /\ failed_count' = it.failed
             /\ log' = Append(log, [op |-> "upsert", outcome |-> it.outcome])
             /\ pc' = IF it.raised THEN "SyncAborted"
                      ELSE IF idx + 1 = Len(users) THEN "Completed"
                      ELSE "Syncing"
    /\ idx' = idx + 1
    /\ url' = 0
    /\ results' = <<>>
    /\ requested' = <<>>
    /\ served' = <<>>
    /\ notified' = [calls |-> 0, last |-> 0]
    /\ UNCHANGED <<args, users, dbBefore>>

(***************************************************************************)
(* handle_delete_user                                                      *)
(***************************************************************************)
Emails == {"a@x.com", "b@x.com"}
Answers == {"y", " Y ", "yes", "n", ""}

\* input().strip().lower()
StripLowerFirstLetter(answer) ==
    IF answer \in {" Y ", "yes"} THEN "y" ELSE answer
StripLower(answer) == IF answer = " Y " THEN "y" ELSE answer

\* The whole command (lines 247-293).  found is the id the command resolved
\* (Null when the email is not in the cache or no argument was given).
handle_delete_user_local_first(c, found, answer, remoteOk, fault) ==
    IF found = Null
    THEN [pc |-> "DeleteFailed", conn |-> c, log |-> <<>>]
    ELSE IF StripLower(answer) # "y"
    THEN [pc |-> "DeleteCancelled", conn |-> c, log |-> <<>>]
    ELSE LET res == delete_user(c, found, fault)
             local == [op |-> "delete", id |-> found,
                       outcome |-> res.outcome, fault |-> fault]
         IN  IF res.outcome # "ok"
             THEN [pc |-> "DeleteFailed", conn |-> res.conn,
                   log |-> <<local>>]
             ELSE [pc |-> IF remoteOk THEN "DeleteDone" ELSE "DeleteFailed",
                   conn |-> res.conn,
                   log |-> <<local,
                             [op |-> "remote_delete", id |-> found,
                              outcome |-> IF remoteOk THEN "ok"
                                          ELSE "error"]>>]
handle_delete_user(c, found, answer, remoteOk, fault) ==
    IF found = Null
    THEN [pc |-> "DeleteFailed", conn |-> c, log |-> <<>>]
    ELSE IF StripLower(answer) # "y"
    THEN [pc |-> "DeleteCancelled", conn |-> c, log |-> <<>>]
    ELSE IF ~remoteOk
    THEN [pc |-> "DeleteFailed", conn |-> c,
          log |-> <<[op |-> "remote_delete", id |-> found,
                     outcome |-> "error"]>>]
    ELSE LET res == delete_user(c, found, fault)
         IN  [pc |-> IF res.outcome = "ok" THEN "DeleteDone" ELSE "DeleteFailed",
              conn |-> res.conn,
              log |-> <<[op |-> "remote_delete", id |-> found,
                         outcome |-> "ok"],
                        [op |-> "delete", id |-> found,
                         outcome |-> res.outcome, fault |-> fault]>>]

\* lines 251-262: the id given, or the id looked up by email
ResolveId(c, argId, argEmail) ==
    IF argId # Null THEN {argId}
    ELSE IF argEmail = Null \/ get_user_by_email(c.working, argEmail) = {}
    THEN {Null}
    ELSE get_user_by_email(c.working, argEmail)

HandleDeleteUser ==
    /\ pc = "Idle"
    /\ \E argId \in Ids \cup {Null}, argEmail \in Emails \cup {Null},
          answer \in Answers, remoteOk \in BOOLEAN, fault \in Faults :
         /\ argId = Null \/ argEmail = Null
         /\ args' = [cmd |-> "delete", id |-> argId, email |-> argEmail,
                     answer |-> answer]
         /\ \E found \in ResolveId(conn, argId, argEmail) :
              LET r == handle_delete_user(conn, found, answer, remoteOk, fault)
              IN  /\ pc' = r.pc
                  /\ conn' = r.conn
                  /\ log' = r.log
    /\ UNCHANGED <<fetchVars, syncVars, connBefore, dbBefore>>

(***************************************************************************)
(* handle_get_user                                                         *)
(***************************************************************************)
\* the records the remote returns to a single-record lookup
LookupPool == {RecA1, RecA2, RecBig}

RECURSIVE RemoteRuns(_, _)
\* What the remote can answer to one call of get: the responses to the
\* requests of pages page, page + 1, ... up to one that fails or carries no
\* rel="next" link.
RemoteRuns(page, have) ==
    LET rs == ResponsesOf(LookupPool, page, have)
        last == {r \in rs : r.status # "ok" \/ r.next = 0}
        more == rs \ last
    IN  {<<r>> : r \in last}
        \cup UNION {{<<r>> \o rest :
                        rest \in RemoteRuns(r.next,
                                            have + Len(Records(r.body)))} :
                    r \in more}

LookupRuns == RemoteRuns(1, 0)

RECURSIVE GetFrom(_, _, _, _, _, _, _)
\* HttpRequestClient.get from the k-th request on (lines 50-69)
GetFrom(cb, run, k, page, acc, seen, reqs) ==
    LET response == run[k]
        it == GetIteration(acc, response)
        told == Notify(cb, it.results, seen)
        req == Append(reqs, [page |-> page, status |-> response.status,
                             body |-> BodyKind(response),
                             next |-> IF response.status = "ok"
                                      THEN response.next ELSE 0])
    IN  IF it.raised
        THEN [raised |-> TRUE, results |-> <<>>, requested |-> req,
              notified |-> seen]
        ELSE IF it.url = 0 \/ k = Len(run)
        THEN [raised |-> FALSE, results |-> told.results, requested |-> req,
              notified |-> told.notified]
        ELSE GetFrom(cb, run, k + 1, it.url, told.results, told.notified, req)

\* HttpRequestClient.get(path, cb) against a remote that answers with run
get(cb, run) == GetFrom(cb, run, 1, 1, <<>>, [calls |-> 0, last |-> 0], <<>>)

\* OktaUsers.get_user_by_id / get_user_by_email: `users[0] if users else None`
LastOrNone(fetched) ==
    IF fetched = <<>> THEN NullValue ELSE fetched[Len(fetched)]
FirstOrNone(fetched) == IF fetched = <<>> THEN NullValue ELSE fetched[1]

\* lines 122-149: --source api.  The record found is upserted before it is
\* displayed; an exception of the upsert ends the command.
handle_get_user_api(c, argId, argEmail, run, fault) ==
    IF argId = Null /\ argEmail = Null
    THEN [pc |-> "GetFailed", conn |-> c, log |-> <<>>,
          fetched |-> [raised |-> FALSE, results |-> <<>>, requested |-> <<>>,
                       notified |-> [calls |-> 0, last |-> 0]]]
    ELSE
      LET fetched == get(Null, run)
          user == FirstOrNone(fetched.results)
          res == create_or_update_user(c, user, fault)
      IN  IF fetched.raised
          THEN [pc |-> "GetFailed", conn |-> c, fetched |-> fetched,
                log |-> <<[op |-> "remote_get", outcome |-> "error",
                           result |-> NullValue]>>]
          ELSE IF user.kind = "null"
          THEN [pc |-> "GetNotFound", conn |-> c, fetched |-> fetched,
                log |-> <<[op |-> "remote_get", outcome |-> "ok",
                           result |-> user]>>]
          ELSE [pc |-> IF res.outcome = "ok" THEN "GetDone" ELSE "GetFailed",
                conn |-> res.conn, fetched |-> fetched,
                log |-> <<[op |-> "remote_get", outcome |-> "ok",
                           result |-> user],
                          [op |-> "upsert", outcome |-> res.outcome,
                           result |-> NullValue]>>]

\* the records of the pages a run serves, in order
RECURSIVE ServedBy(_)
ServedBy(run) ==
    IF run = <<>> THEN <<>>
    ELSE (IF run[1].status = "ok" THEN Records(run[1].body) ELSE <<>>)
             \o ServedBy(Tail(run))

\* The remote decides what a lookup returns, whatever the key: one id and
\* one email stand for all.  The storage fault is one after the users insert.
HandleGetUserApi ==
    /\ pc = "Idle"
    /\ \E argId \in {"u1", Null}, argEmail \in {"a@x.com", Null},
          run \in LookupRuns, fault \in {"none", "user_profiles"} :
         /\ argId = Null \/ argEmail = Null
         \* one choice stands for all where the run or the fault is not used
         /\ (argId = Null /\ argEmail = Null) => run = <<[status |-> "error"]>>
         /\ (argId = Null /\ argEmail = Null) \/ get(Null, run).results = <<>>
               => fault = "none"
         /\ LET r == handle_get_user_api(conn, argId, argEmail, run, fault)
            IN  /\ args' = [cmd |-> "get", source |-> "api", id |-> argId,
                            email |-> argEmail]
                /\ pc' = r.pc
                /\ conn' = r.conn
                /\ log' = r.log
                /\ requested' = r.fetched.requested
                /\ served' = IF r.fetched.requested = <<>> THEN <<>>
                             ELSE ServedBy(run)
                /\ notified' = r.fetched.notified
    /\ connBefore' = conn
    /\ UNCHANGED <<url, results, syncVars, dbBefore>>

\* lines 151-170: --source db
handle_get_user_db(c, argId, argEmail) ==
    LET found(op, key, user) ==
            [pc |-> IF user.kind = "null" THEN "GetNotFound" ELSE "GetDone",
             log |-> <<[op |-> op, key |-> key, outcome |-> "ok",
                        result |-> user]>>]
    IN  IF argId # Null
        THEN {found("get_user_by_id", argId,
                    get_user_by_id(c.working, argId))}
        ELSE IF argEmail # Null
        THEN {found("get_user_by_email", argEmail, user) :
                 user \in get_user_by_email_row(c.working, argEmail)}
        ELSE {[pc |-> "GetFailed", log |-> <<>>]}

HandleGetUserDb ==
    /\ pc = "Idle"
    /\ \E argId \in Ids \cup {Null}, argEmail \in Emails \cup {Null} :
         /\ argId = Null \/ argEmail = Null
         /\ args' = [cmd |-> "get", source |-> "db", id |-> argId,
                     email |-> argEmail]
         /\ \E r \in handle_get_user_db(conn, argId, argEmail) :
              /\ pc' = r.pc
              /\ log' = r.log
    /\ connBefore' = conn
    /\ UNCHANGED <<conn, fetchVars, syncVars, dbBefore>>

(***************************************************************************)
(* handle_update_user                                                      *)
(***************************************************************************)
\* --profile as given: not given, the empty string, text that is not JSON,
\* or JSON text (kind "json", value the parsed payload)
JsonArg(value) == [kind |-> "json", value |-> value]
NotGiven == [kind |-> "missing"]
EmptyText == [kind |-> "empty"]
NotJson == [kind |-> "badjson"]

PLast == UpdateDict([NoFields EXCEPT !.lastName = "New"], Absent)
PUnknown == UpdateDict(NoFields, "x")
PMixed == UpdateDict([NoFields EXCEPT !.placementOrg = "org9"], "x")
PEmpty == UpdateDict(NoFields, Absent)
PList == UpdateDict([NoFields EXCEPT !.reportGroupList = List], Absent)
PBig == UpdateDict([NoFields EXCEPT !.ackNewBusiness = BigInt], Absent)

ProfileArgs ==
    {NotGiven, EmptyText, NotJson, JsonArg(NullValue)}
        \cup {JsonArg(p) : p \in {PLast, PUnknown, PMixed, PEmpty, PList, PBig}}

\* `not args.id`, `not args.profile`
Falsy(arg) == arg = Null \/ arg = ""
FalsyText(arg) == arg.kind \in {"missing", "empty"}

\* The whole command (lines 188-220): validation, the remote update, the
\* local update.
handle_update_user_validating_late(c, argId, argProfile, remoteOk, fault) ==
    LET remote == [op |-> "remote_update", id |-> argId,
                   outcome |-> IF remoteOk THEN "ok" ELSE "error"]
    IN  IF ~remoteOk
        THEN [pc |-> "UpdateFailed", conn |-> c, log |-> <<remote>>]
        ELSE IF Falsy(argId) \/ FalsyText(argProfile)
                  \/ argProfile.kind = "badjson"
        THEN [pc |-> "UpdateRejected", conn |-> c, log |-> <<remote>>]
        ELSE LET res == update_user_profile(c, argId, argProfile.value, fault)
             IN  [pc |-> IF res.outcome \in {"ok", "noop"} THEN "UpdateDone"
                         ELSE "UpdateFailed",
                  conn |-> res.conn,
                  log |-> <<remote, [op |-> "update", id |-> argId,
                                     outcome |-> res.outcome,
                                     fault |-> fault]>>]
handle_update_user(c, argId, argProfile, remoteOk, fault) ==
    IF Falsy(argId) \/ FalsyText(argProfile) \/ argProfile.kind = "badjson"
    THEN [pc |-> "UpdateRejected", conn |-> c, log |-> <<>>]
    ELSE
      LET remote == [op |-> "remote_update", id |-> argId,
                     outcome |-> IF remoteOk THEN "ok" ELSE "error"]
          res == update_user_profile(c, argId, argProfile.value, fault)
      IN  IF ~remoteOk
          THEN [pc |-> "UpdateFailed", conn |-> c, log |-> <<remote>>]
          ELSE [pc |-> IF res.outcome \in {"ok", "noop"} THEN "UpdateDone"
                       ELSE "UpdateFailed",
                conn |-> res.conn,
                log |-> <<remote, [op |-> "update", id |-> argId,
                                   outcome |-> res.outcome,
                                   fault |-> fault]>>]

HandleUpdateUser ==
    /\ pc = "Idle"
    /\ \E argId \in Ids \cup {Null, ""}, argProfile \in ProfileArgs,
          remoteOk \in BOOLEAN, fault \in {"none", "user_profiles", "commit"} :
         LET r == handle_update_user(conn, argId, argProfile, remoteOk, fault)
         IN  /\ args' = [cmd |-> "update", id |-> argId,
                         profile |-> argProfile]
             /\ pc' = r.pc
             /\ conn' = r.conn
             /\ log' = r.log
    /\ connBefore' = conn
    /\ UNCHANGED <<fetchVars, syncVars, dbBefore>>

(***************************************************************************)
(* handle_password_reset                                                   *)
(***************************************************************************)
\* OktaUsers.reset_user_password (OktaApi.py 139-143): post raises when the
\* request fails and returns the parsed body otherwise; the method then calls
\* .json() on that parsed body, which no JSON value has: AttributeError.
reset_user_password(user_id, remoteOk) ==
    IF ~remoteOk
    THEN [raised |-> TRUE,
          log |-> <<[op |-> "remote_reset", id |-> user_id,
                     outcome |-> "error"]>>]
    ELSE [raised |-> TRUE,
          log |-> <<[op |-> "remote_reset", id |-> user_id, outcome |-> "ok"],
                    [op |-> "json", id |-> user_id, outcome |-> "other"]>>]

\* The whole command (lines 223-237): `except Exception: pass` ends the
\* handler normally whatever was raised in it.
handle_password_reset(argId, remoteOk) ==
    IF Falsy(argId)
    THEN [pc |-> "ResetReturned", log |-> <<>>]
    ELSE LET res == reset_user_password(argId, remoteOk)
         IN  [pc |-> "ResetReturned", log |-> res.log]

HandlePasswordReset ==
    /\ pc = "Idle"
    /\ \E argId \in Ids \cup {Null}, remoteOk \in BOOLEAN :
         LET r == handle_password_reset(argId, remoteOk)
         IN  /\ args' = [cmd |-> "reset-password", id |-> argId]
             /\ pc' = r.pc
             /\ log' = r.log
    /\ connBefore' = conn
    /\ UNCHANGED <<conn, fetchVars, syncVars, dbBefore>>

(***************************************************************************)
(* list_users                                                              *)
(***************************************************************************)
\* --limit and --page as given (lines 416-417 put defaults for None)
Limits == {1, 2}
Pages == {1, 2, 3}

\* The whole command (lines 360-425).  The export writes every user to a
\* CSV file.  The paginated display calls get_all_users_paginated, which
\* UsersRepository does not define: the attribute lookup raises.
list_users(c, export, limit, page) ==
    IF export
    THEN LET found == get_all_users(c.working)
         IN  [pc |-> IF found = <<>> THEN "ListEmpty" ELSE "ListExported",
              log |-> <<[op |-> "get_all_users", outcome |-> "ok",
                         result |-> found]>>]
    ELSE [pc |-> "ListFailed",
          log |-> <<[op |-> "get_all_users_paginated", outcome |-> "other",
                     result |-> <<>>]>>]

ListUsers ==
    /\ pc = "Idle"
    /\ \E export \in BOOLEAN, limit \in Limits, page \in Pages :
         LET r == list_users(conn, export, limit, page)
         IN  /\ args' = [cmd |-> "list", export |-> export, limit |-> limit,
                         page |-> page]
             /\ pc' = r.pc
             /\ log' = r.log
    /\ connBefore' = conn
    /\ UNCHANGED <<conn, fetchVars, syncVars, dbBefore>>

(***************************************************************************)
(* cli.updater: version check and self-update.  The time unit is half a    *)
(* day, so that the default update_check_interval of 86400 s is 2.         *)
(***************************************************************************)
\* largest reading of the clock
MaxTime == 3

\* the classes cli/exceptions.py defines
ExceptionClasses ==
    {"OktaCliException", "ConfigurationError", "UserNotFoundError",
     "DatabaseError", "OktaApiError", "ValidationError"}

\* the names the modules of cli.updater import from cli.exceptions when they
\* are loaded (version_checker.py 13, commands.py 12, installer.py 12)
UpdaterImports == {"UpdateCheckError", "InstallationError"}

\* `from ..exceptions import name`: ImportError unless the module has it.
\* cli/updater/__init__.py loads version_checker first, so that no module of
\* the package can be imported when a name is missing.
UpdaterImportable == UpdaterImports \subseteq ExceptionClasses

\* cli.__version__ (version_checker.py 31): no module under cli assigns it
CliVersion == [kind |-> "absent"]

\* version texts: dot-separated integers, or a text with a component that
\* int() rejects
Numeric(parts) == [kind |-> "numeric", parts |-> parts]
NotNumeric == [kind |-> "text"]
EmptyVersion == [kind |-> "empty"]

\* get_current_version: AttributeError when the package has no __version__
get_current_version ==
    IF CliVersion.kind = "absent"
    THEN [raised |-> TRUE, version |-> EmptyVersion]
    ELSE [raised |-> FALSE, version |-> CliVersion]

\* the answers of the releases endpoint: a failure, or a body whose tag_name
\* is the version text behind any leading "v" (an absent tag_name is the
\* empty text)
ReleaseResponses ==
    {[status |-> "error"]}
        \cup {[status |-> "ok", tag_name |-> t] :
                 t \in {Numeric(<<0, 1>>), Numeric(<<0, 1, 0>>),
                        Numeric(<<0, 2, 0>>), Numeric(<<0, 0, 9>>),
                        NotNumeric, EmptyVersion}}

\* get_latest_version (lines 34-72): lstrip("v") drops the prefix; an empty
\* text and every request failure become UpdateCheckError
get_latest_version(response) ==
    IF response.status # "ok" \/ response.tag_name = EmptyVersion
    THEN [raised |-> TRUE, version |-> EmptyVersion]
    ELSE [raised |-> FALSE, version |-> response.tag_name]

\* lines 90-93: the shorter list is padded with zeros
Pad(parts, n) == [i \in 1..n |-> IF i <= Len(parts) THEN parts[i] ELSE 0]

\* compare_versions (lines 75-104): list comparison of the integer parts;
\* 0 when a text cannot be parsed
compare_versions(current, latest) ==
    IF current.kind # "numeric" \/ latest.kind # "numeric" THEN 0
    ELSE LET n == IF Len(current.parts) > Len(latest.parts)
                  THEN Len(current.parts) ELSE Len(latest.parts)
             c == Pad(current.parts, n)
             l == Pad(latest.parts, n)
             diff == {i \in 1..n : c[i] # l[i]}
             first == CHOOSE i \in diff : \A j \in diff : i <= j
         IN  IF diff = {} THEN 0 ELSE IF c[first] < l[first] THEN -1 ELSE 1

\* values of last_update_check: null, an ISO time, a text fromisoformat
\* rejects; values of update_check_interval: seconds, or a number timedelta
\* or the datetime addition rejects (OverflowError)
NeverChecked == [kind |-> "none"]
CheckedAt(t) == [kind |-> "time", t |-> t]
BadTime == [kind |-> "bad"]
Seconds(n) == [kind |-> "seconds", n |-> n]
TooLong == [kind |-> "overflow"]

\* config.py 23-27
DEFAULT_UPDATE_CONFIG ==
    [auto_check_updates |-> TRUE, update_check_interval |-> Seconds(2),
     last_update_check |-> NeverChecked]

\* get_update_config: the file merged over the defaults
UpdateConfigs ==
    {[auto_check_updates |-> a, update_check_interval |-> i,
      last_update_check |-> l] :
        a \in BOOLEAN, i \in {Seconds(0), Seconds(2), TooLong},
        l \in {NeverChecked, BadTime} \cup {CheckedAt(t) : t \in 0..MaxTime}}

\* should_check_for_updates (lines 107-153); an exception in the
\* computation allows the check
should_check_for_updates(force, config, now) ==
    IF force THEN TRUE
    ELSE IF ~config.auto_check_updates THEN FALSE
    ELSE IF config.last_update_check.kind = "none" THEN TRUE
    ELSE IF config.last_update_check.kind = "bad" THEN TRUE
    ELSE IF config.update_check_interval.kind = "overflow" THEN TRUE
    ELSE now >= config.last_update_check.t + config.update_check_interval.n

NoUpdate == [kind |-> "none"]

\* check_for_updates (lines 156-195).  save_last_check_time logs and
\* swallows a failure to write the file.
check_for_updates(force, config, now, response, saveOk) ==
    LET current == get_current_version
        latest == get_latest_version(response)
        fetch(outcome) == [op |-> "get_latest_version", outcome |-> outcome,
                           at |-> now]
        save == [op |-> "save_last_check_time",
                 outcome |-> IF saveOk THEN "ok" ELSE "error", at |-> now]
    IN  IF ~should_check_for_updates(force, config, now)
        THEN [raised |-> FALSE, result |-> NoUpdate, log |-> <<>>]
        ELSE IF current.raised
        THEN [raised |-> TRUE, result |-> NoUpdate, log |-> <<>>]
        ELSE IF latest.raised
        THEN [raised |-> TRUE, result |-> NoUpdate,
              log |-> <<fetch("error")>>]
        ELSE [raised |-> FALSE,
              result |-> IF compare_versions(current.version,
                                             latest.version) < 0
                         THEN [kind |-> "update", version |-> latest.version]
                         ELSE NoUpdate,
              log |-> <<fetch("ok"), save>>]

\* A caller imports check_for_updates from cli.updater and calls it.
CheckForUpdates ==
    /\ pc = "Idle"
    /\ IF ~UpdaterImportable
       THEN \E force \in BOOLEAN :
              /\ args' = [cmd |-> "check_for_updates", force |-> force,
                          config |-> DEFAULT_UPDATE_CONFIG, now |-> 0]
              /\ pc' = "ImportFailed"
              /\ log' = <<[op |-> "import", outcome |-> "other", at |-> 0]>>
       ELSE \E force \in BOOLEAN, config \in UpdateConfigs,
               now \in 0..MaxTime, response \in ReleaseResponses,
               saveOk \in BOOLEAN :
              LET r == check_for_updates(force, config, now, response, saveOk)
              IN  /\ args' = [cmd |-> "check_for_updates", force |-> force,
                              config |-> config, now |-> now]
                  /\ pc' = IF r.raised THEN "CheckRaised"
                           ELSE IF r.result.kind = "update"
                           THEN "CheckFoundUpdate" ELSE "CheckFoundNone"
                  /\ log' = r.log
    /\ connBefore' = conn
    /\ UNCHANGED <<conn, fetchVars, syncVars, dbBefore>>

\* handle_update_command (commands.py 20-97): every exception is reported
\* and swallowed; install_update raises InstallationError when it fails
\* (a: the flags of the command line, the terminal and the answer typed)
handle_update_command(a, checked, current, installOk) ==
    IF current.raised \/ checked.raised \/ checked.result.kind # "update"
    THEN [log |-> IF current.raised THEN <<>> ELSE checked.log]
    ELSE IF a.check THEN [log |-> checked.log]
    ELSE IF ~a.yes /\ ~a.isatty THEN [log |-> checked.log]
    ELSE IF ~a.yes /\ StripLower(a.answer) # "y" THEN [log |-> checked.log]
    ELSE [log |-> Append(checked.log,
                         [op |-> "install_update",
                          outcome |-> IF installOk THEN "ok" ELSE "error",
                          at |-> 0])]

\* A caller imports handle_update_command from cli.updater and calls it.
HandleUpdateCommand ==
    /\ pc = "Idle"
    /\ IF ~UpdaterImportable
       THEN /\ args' = [cmd |-> "self-update"]
            /\ pc' = "ImportFailed"
            /\ log' = <<[op |-> "import", outcome |-> "other", at |-> 0]>>
       ELSE \E check_only \in BOOLEAN, force \in BOOLEAN,
               auto_yes \in BOOLEAN, isatty \in BOOLEAN, answer \in Answers,
               config \in UpdateConfigs, now \in 0..MaxTime,
               response \in ReleaseResponses, installOk \in BOOLEAN :
              LET checked == check_for_updates(force, config, now, response,
                                               TRUE)
                  r == handle_update_command(
                           [check |-> check_only, yes |-> auto_yes,
                            isatty |-> isatty, answer |-> answer],
                           checked, get_current_version, installOk)
              IN  /\ args' = [cmd |-> "self-update", check |-> check_only,
                              force |-> force, yes |-> auto_yes,
                              isatty |-> isatty, answer |-> answer,
                              config |-> config, now |-> now,
                              found |-> checked.result]
                  /\ pc' = "SelfUpdateReturned"
                  /\ log' = r.log
    /\ connBefore' = conn
    /\ UNCHANGED <<conn, fetchVars, syncVars, dbBefore>>

(***************************************************************************)
(* The process ends; the next command runs in a new process on the same    *)
(* database file.  Closing the connection drops the open transaction.      *)
(***************************************************************************)
Terminal ==
    {"FetchFailed", "NoUsers", "Completed", "SyncAborted", "DeleteDone",
     "DeleteFailed", "DeleteCancelled", "GetDone", "GetNotFound", "GetFailed",
     "UpdateDone", "UpdateFailed", "UpdateRejected", "ResetReturned",
     "ListExported", "ListEmpty", "ListFailed", "ImportFailed", "CheckRaised",
     "CheckFoundUpdate", "CheckFoundNone", "SelfUpdateReturned"}

Exit ==
    /\ pc \in Terminal
    /\ pc' = "Idle"
    /\ args' = NoArgs
    /\ conn' = [conn EXCEPT !.working = conn.committed]
    /\ url' = 0
    /\ results' = <<>>
    /\ requested' = <<>>
    /\ served' = <<>>
    /\ notified' = [calls |-> 0, last |-> 0]
    /\ users' = <<>>
    /\ idx' = 0
    /\ synced_count' = 0
    /\ failed_count' = 0
    /\ log' = <<>>
    /\ connBefore' = [conn EXCEPT !.working = conn.committed]
    /\ dbBefore' = conn.committed

Init ==
    /\ conn = [committed |-> EmptyDb, working |-> EmptyDb]
    /\ pc = "Idle"
    /\ args = NoArgs
    /\ url = 0
    /\ results = <<>>
    /\ requested = <<>>
    /\ served = <<>>
    /\ notified = [calls |-> 0, last |-> 0]
    /\ users = <<>>
    /\ idx = 0
    /\ synced_count = 0
    /\ failed_count = 0
    /\ log = <<>>
    /\ connBefore = conn
    /\ dbBefore = EmptyDb

Next ==
    \/ SyncStart
    \/ FetchPage
    \/ SyncRecord
    \/ HandleDeleteUser
    \/ HandleGetUserDb
    \/ Exit

Spec == Init /\ [][Next]_vars

\* the single-record commands and the listing, without the bulk sync
NextCommands ==
    \/ HandleGetUserApi
    \/ HandleGetUserDb
    \/ HandleUpdateUser
    \/ HandlePasswordReset
    \/ HandleDeleteUser
    \/ ListUsers
    \/ CheckForUpdates
    \/ HandleUpdateCommand
    \/ Exit

SpecCommands == Init /\ [][NextCommands]_vars

(***************************************************************************)
(* Properties.                                                             *)
(***************************************************************************)
InSyncLoop == pc \in {"Syncing", "Completed"}

\* the upserts of the running pass that raised
FailedUpserts == Cardinality({i \in 1..Len(log) : log[i].outcome # "ok"})

\* C1 (count conservation): while the sync loop runs and when it has
\* completed, synced_count + failed_count is the number of records processed,
\* failed_count is the number of upserts that raised and synced_count the
\* number that did not; a completed pass has processed all M fetched records.
C1_CountConservation ==
    InSyncLoop =>
        /\ Len(log) = idx
        /\ synced_count + failed_count = idx
        /\ failed_count = FailedUpserts
        /\ synced_count = idx - FailedUpserts
        /\ pc = "Completed" => synced_count + failed_count = Len(users)

\* C1 witness: a completed pass over two records, one of which failed
C1_Witness ==
    /\ pc = "Completed"
    /\ Len(users) = 2
    /\ synced_count = 1
    /\ failed_count = 1

\* C2 (per-record failure isolation): once records were fetched, the loop is
\* left only by completing, with every fetched record attempted and each
\* failure counted, whatever the record and whatever the failure.
C2_FailureIsolation ==
    (users # <<>> /\ pc # "Syncing") =>
        /\ pc = "Completed"
        /\ Len(log) = Len(users)
        /\ failed_count = FailedUpserts

\* a request of the running get failed
RequestFailed == \E i \in 1..Len(requested) : requested[i].status # "ok"

\* C3 (fetch-failure atomicity): when any page request fails the pass ends
\* in FetchFailed, the handler holds no record, no upsert was made and the
\* cache is what it was before the pass.
C3_FetchFailureAtomicity ==
    RequestFailed =>
        /\ pc = "FetchFailed"
        /\ users = <<>>
        /\ results = <<>>
        /\ log = <<>>
        /\ conn.committed = dbBefore
        /\ conn.working = dbBefore

\* C3 witness: the second page request failed after the first page had
\* delivered records, over a cache that was not empty
C3_Witness ==
    /\ pc = "FetchFailed"
    /\ Len(requested) = 2
    /\ served # <<>>
    /\ dbBefore.users # <<>>

\* get has returned and the handler has not yet started the loop
Fetched == pc \in {"Syncing", "NoUsers"} /\ idx = 0

\* C4 (pagination termination): when get returns after N requests, the
\* requests were for pages 1..N in that order, each once, every page but the
\* last carried a pointer to the next page and the last carried none, and
\* the result is the concatenation of the served records in response order.
C4_PaginationTermination ==
    Fetched =>
        /\ \A i \in 1..Len(requested) :
              /\ requested[i].page = i
              /\ requested[i].status = "ok"
              /\ requested[i].next = IF i < Len(requested) THEN i + 1 ELSE 0
        /\ requested # <<>>
        /\ users = served

\* C4 witness: two pages were fetched and the result holds the same record
\* twice
C4_Witness ==
    /\ Fetched
    /\ Len(requested) = 2
    /\ Len(users) = 2
    /\ users[1] = users[2]

\* the rows of a table with the given key
RowsWith(rows, pk, key) == SelectSeq(rows, LAMBDA r : r[pk] = key)

\* the value a column holds after a record with value v for it was stored
StoredAs(v) == IF v = Absent THEN Null ELSE v

\* the records of the pool that carry an identifier
IdRecords == {r \in DictPool : r.id # Absent /\ r.id # Null}

\* the last step was the upsert of users[idx]
LastUpsert == pc \in {"Syncing", "Completed", "SyncAborted"} /\ idx >= 1
LastUpsertOk == LastUpsert /\ log[idx].outcome = "ok"

UpsertOnce(c, r) == create_or_update_user(c, r, "none").conn

\* C5 (idempotent upsert): for every record with an identifier and every
\* state of the connection in which an upsert can be called, a second upsert
\* of the same record leaves the three tables as the first one left them;
\* and when the sync loop has just upserted the same record twice in a row
\* the second call changed nothing.
C5_IdempotentUpsert ==
    /\ pc \in {"Idle", "Syncing"} =>
          \A r \in IdRecords :
              UpsertOnce(UpsertOnce(conn, r), r) = UpsertOnce(conn, r)
    /\ ( /\ LastUpsertOk
         /\ idx >= 2
         /\ users[idx] = users[idx - 1]
         /\ users[idx] \in IdRecords
         /\ log[idx - 1].outcome = "ok" ) => conn = connBefore

\* C5 witness: a pass over a cache that was not empty upserted the same
\* record twice and both calls succeeded
C5_Witness ==
    /\ pc = "Completed"
    /\ idx = 2
    /\ users[1] = users[2]
    /\ users[1] \in IdRecords
    /\ log[1].outcome = "ok"
    /\ log[2].outcome = "ok"
    /\ dbBefore.users # <<>>
    /\ conn.committed # dbBefore

UserColumns ==
    {"status", "created", "activated", "statusChanged", "lastLogin",
     "lastUpdated", "passwordChanged"}

\* C6 (full-record replace): after a successful upsert of a record with
\* identifier X there is one User row and one Profile row for X, every
\* column holds the value of the record and NULL where the record has none,
\* whatever was stored for X before.
C6_FullRecordReplace ==
    LastUpsertOk =>
        LET r == users[idx]
            urows == RowsWith(conn.committed.users, UserPk, r.id)
            prows == RowsWith(conn.committed.user_profiles, ProfilePk, r.id)
        IN  /\ Len(urows) = 1
            /\ Len(prows) = 1
            /\ \A f \in UserColumns : urows[1][f] = StoredAs(r[f])
            /\ urows[1].placementOrg = StoredAs(GetProfile(r).f.placementOrg)
            /\ urows[1].type_id = IF r.type.kind = "dict"
                                  THEN StoredAs(r.type.id) ELSE Null
            /\ \A f \in ProfileFields :
                  prows[1][f] = StoredAs(GetProfile(r).f[f])

\* C6 witness: a record without lastName was upserted over a stored profile
\* that had one, and the stored lastName is now NULL
C6_Witness ==
    /\ LastUpsertOk
    /\ users[idx] = RecB1
    /\ \E i \in 1..Len(connBefore.committed.user_profiles) :
          /\ connBefore.committed.user_profiles[i].user_id = "u1"
          /\ connBefore.committed.user_profiles[i].lastName = "One"
    /\ \E i \in 1..Len(conn.committed.user_profiles) :
          /\ conn.committed.user_profiles[i].user_id = "u1"
          /\ conn.committed.user_profiles[i].lastName = Null

\* C7 (atomic upsert): an upsert that hits a storage fault is rolled back and
\* leaves the committed tables as they were; and the committed User row of
\* an identifier changes only by a successful upsert of that identifier,
\* together with the Profile row of the same call.
C7_AtomicUpsert ==
    LastUpsert =>
        /\ log[idx].outcome = "sqlite" =>
              /\ conn.committed = connBefore.committed
              /\ conn.working = conn.committed
        /\ \A id \in Ids :
              RowsWith(conn.committed.users, UserPk, id)
                  # RowsWith(connBefore.committed.users, UserPk, id)
              => /\ log[idx].outcome = "ok"
                 /\ users[idx].id = id
                 /\ RowsWith(conn.committed.user_profiles, ProfilePk, id)
                       = <<ProfileRowOf(users[idx], GetProfile(users[idx]))>>

\* the local delete of the delete command was called
DeleteCalled == pc \in {"DeleteDone", "DeleteFailed"} /\ Len(log) = 2

\* C8 (cascade and idempotent delete): after a successful delete of X no
\* User row and no Profile row of X is left, every other row and the user
\* types are unchanged, and nothing at all changed when X was not stored;
\* the local delete fails only on a storage fault, never because X is
\* absent; from every cache a command can start on, deleting twice is the
\* same as deleting once.
C8_CascadeIdempotentDelete ==
    /\ pc = "DeleteDone" =>
          LET X == log[2].id
          IN  /\ RowsWith(conn.committed.users, UserPk, X) = <<>>
              /\ RowsWith(conn.committed.user_profiles, ProfilePk, X) = <<>>
              /\ conn.working = conn.committed
              /\ \A id \in Ids \ {X} :
                    /\ RowsWith(conn.committed.users, UserPk, id)
                          = RowsWith(dbBefore.users, UserPk, id)
                    /\ RowsWith(conn.committed.user_profiles, ProfilePk, id)
                          = RowsWith(dbBefore.user_profiles, ProfilePk, id)
              /\ conn.committed.user_types = dbBefore.user_types
              /\ ( /\ RowsWith(dbBefore.users, UserPk, X) = <<>>
                   /\ RowsWith(dbBefore.user_profiles, ProfilePk, X) = <<>> )
                 => conn.committed = dbBefore
    /\ (DeleteCalled /\ log[2].outcome # "ok") =>
          /\ log[2].fault # "none"
          /\ conn.committed = dbBefore
    /\ pc = "Idle" =>
          \A id \in Ids :
              LET once == delete_user(conn, id, "none")
              IN  /\ once.outcome = "ok"
                  /\ delete_user(once.conn, id, "none") = once

\* C8 witness: a stored User/Profile pair was deleted and another user is
\* still stored
C8_Witness ==
    /\ pc = "DeleteDone"
    /\ RowsWith(dbBefore.users, UserPk, log[2].id) # <<>>
    /\ RowsWith(dbBefore.user_profiles, ProfilePk, log[2].id) # <<>>
    /\ conn.committed.users # <<>>
    /\ conn.committed.user_profiles # <<>>

RECURSIVE ExpectedCache(_)
\* the cache after the first n records of the pass when only the upserts
\* that succeeded have changed it
ExpectedCache(n) ==
    IF n = 0 THEN dbBefore
    ELSE LET db == ExpectedCache(n - 1)
         IN  IF log[n].outcome = "ok"
             THEN UpsertOnce([committed |-> db, working |-> db],
                             users[n]).committed
             ELSE db

\* C9 (cache content after sync): after a completed pass over M records with
\* F failures the cache is the cache before the pass changed by the M - F
\* successful upserts only, each stored with its fetched values; no failed
\* record has changed a User or Profile row.
C9_CacheContentAfterSync ==
    pc = "Completed" =>
        /\ synced_count = Len(users) - FailedUpserts
        /\ conn.committed.users = ExpectedCache(Len(users)).users
        /\ conn.committed.user_profiles
              = ExpectedCache(Len(users)).user_profiles

\* the identifiers of the fetched records
FetchedIds ==
    {users[i].id : i \in {j \in 1..Len(users) : users[j].kind = "dict"}}

InSyncPositions ==
    {"Fetching", "FetchFailed", "NoUsers", "Syncing", "Completed",
     "SyncAborted"}

InSyncCommand == pc \in InSyncPositions

\* C10 (one-way sync): at every point of a sync pass, however it ends, the
\* User and Profile rows of every identifier that is not among the fetched
\* records are the rows stored before the pass.
C10_OneWaySync ==
    InSyncCommand =>
        \A id \in Ids \ FetchedIds :
            \A db \in {conn.committed, conn.working} :
                /\ RowsWith(db.users, UserPk, id)
                      = RowsWith(dbBefore.users, UserPk, id)
                /\ RowsWith(db.user_profiles, ProfilePk, id)
                      = RowsWith(dbBefore.user_profiles, ProfilePk, id)

\* C10 witness: a completed pass changed the cache and a User/Profile pair
\* stored before it was not among the fetched records
C10_Witness ==
    /\ pc = "Completed"
    /\ conn.committed # dbBefore
    /\ \E id \in Ids \ FetchedIds :
          /\ RowsWith(dbBefore.users, UserPk, id) # <<>>
          /\ RowsWith(dbBefore.user_profiles, ProfilePk, id) # <<>>

\* get has returned without a record: every request succeeded, the last
\* page carried no pointer and no page carried a record
FetchedNothing ==
    /\ InSyncCommand
    /\ requested # <<>>
    /\ ~RequestFailed
    /\ requested[Len(requested)].next = 0
    /\ served = <<>>

\* C11 (zero records is not an error): when the fetch succeeds with an empty
\* result the pass ends in NoUsers, which is neither FetchFailed nor
\* Completed, without an upsert and with the cache and the connection as they
\* were before the pass; NoUsers is reached in no other way, a completed pass
\* has fetched at least one record and a failed one had a failed request.
C11_EmptyFetchIsNotAnError ==
    /\ FetchedNothing =>
          /\ pc = "NoUsers"
          /\ users = <<>>
          /\ log = <<>>
          /\ idx = 0
          /\ conn = [committed |-> dbBefore, working |-> dbBefore]
    /\ pc = "NoUsers" => FetchedNothing
    /\ pc = "Completed" => users # <<>>
    /\ pc = "FetchFailed" => RequestFailed

\* C11 witness: two pages without a record were fetched over a cache that
\* was not empty
C11_Witness ==
    /\ pc = "NoUsers"
    /\ Len(requested) = 2
    /\ dbBefore.users # <<>>

\* C12 (sync state machine): a pass moves Idle -> Fetching -> FetchFailed or
\* (fetched) -> Syncing -> Completed; nothing follows FetchFailed or
\* Completed but the end of the process; no upsert is made while fetching;
\* each step of Syncing takes the next record, once, records one outcome and
\* stays in Syncing or, after the last record, moves to Completed.
C12_SyncStateMachine ==
    [][ /\ pc = "Idle" /\ pc' \in InSyncPositions => pc' = "Fetching"
        /\ pc = "Fetching" =>
              /\ pc' \in {"Fetching", "FetchFailed", "NoUsers", "Syncing"}
              /\ log' = <<>>
              /\ conn' = conn
        /\ pc = "Syncing" =>
              /\ pc' \in {"Syncing", "Completed"}
              /\ idx' = idx + 1
              /\ users' = users
              /\ Len(log') = Len(log) + 1
              /\ pc' = "Completed" <=> idx' = Len(users)
        /\ pc \in {"FetchFailed", "Completed"} => pc' = "Idle"
        /\ pc' = "Syncing" => pc \in {"Fetching", "Syncing"}
        /\ pc' = "Completed" => pc = "Syncing"
        /\ pc' = "FetchFailed" => pc = "Fetching"
      ]_vars

\* C20 (the progress observer is a side channel): at every point of a fetch
\* the accumulated result is the concatenation of the records served so far,
\* and the next page gives the same result, the same failure and the same
\* continuation with the observer as without it; the observer has been
\* called once for each page received, the last time with the cumulative
\* count.
C20_ObserverIsSideChannel ==
    pc = "Fetching" =>
        /\ results = served
        /\ \A response \in Responses(url, Len(results)) :
              LET it == GetIteration(results, response)
              IN  Notify("collect_users", it.results, notified).results
                     = Notify(Null, it.results, notified).results
        /\ notified.calls = Len(requested)
        /\ notified.last = Len(served)

\* C20 witness: the observer was called after each of two pages, the second
\* time with the count of both
C20_Witness ==
    /\ Fetched
    /\ Len(requested) = 2
    /\ notified = [calls |-> 2, last |-> 2]
    /\ users = served

\* the local update of the update command was called
UpdateCalled == args.cmd = "update" /\ Len(log) = 2

\* the allow-listed fields a payload names
Named(payload) == {f \in ProfileFields : payload.f[f] # Absent}

\* the Profile rows after are the rows before with the named fields of the
\* rows of id set to the payload's values
MergedInto(before, after, id, payload) ==
    /\ Len(after) = Len(before)
    /\ \A i \in 1..Len(before) :
          IF before[i].user_id = id
          THEN /\ after[i].user_id = id
               /\ \A f \in Named(payload) : after[i][f] = payload.f[f]
               /\ \A f \in ProfileFields \ Named(payload) :
                     after[i][f] = before[i][f]
          ELSE after[i] = before[i]

C14_UnknownKeysIgnored ==
    (UpdateCalled /\ args.profile.value.kind = "dict") =>
        LET payload == args.profile.value
        IN  /\ Named(payload) = {} =>
                  /\ pc = "UpdateDone"
                  /\ log[2].outcome = "noop"
                  /\ conn = connBefore
                  /\ conn.committed = dbBefore
            /\ payload.unknown # Absent =>
                  /\ log[2].fault = "none" => pc = "UpdateDone"
                  /\ pc = "UpdateDone" =>
                        MergedInto(dbBefore.user_profiles,
                                   conn.committed.user_profiles, args.id,
                                   payload)

\* C14 witness: a payload with only an unknown key was given for a stored
\* user and the command ended normally
C14_Witness ==
    /\ pc = "UpdateDone"
    /\ UpdateCalled
    /\ args.profile.value = PUnknown
    /\ \E i \in 1..Len(dbBefore.user_profiles) :
          dbBefore.user_profiles[i].user_id = args.id

\* a lookup in the cache has returned
LookupDone ==
    /\ args.cmd = "get"
    /\ args.source = "db"
    /\ pc \in {"GetDone", "GetNotFound"}

\* view is the merged view of the User row and the Profile row of its id in
\* db, with null profile fields when there is no Profile row
MergedView(db, view) ==
    \E i \in 1..Len(db.users) :
        LET u == db.users[i]
            ps == {j \in 1..Len(db.user_profiles) :
                      db.user_profiles[j].user_id = u.id}
        IN  /\ u.id = view.id
            /\ \A f \in UserColumns : view[f] = u[f]
            /\ view.type = IF u.type_id = Null THEN NullValue
                           ELSE TypeDict(u.type_id)
            /\ IF ps = {}
               THEN \A f \in ProfileFields : view.profile.f[f] = Null
               ELSE \E j \in ps :
                       \A f \in ProfileFields :
                           view.profile.f[f] = db.user_profiles[j][f]

\* C15 (lookup): a lookup by id returns the merged view of the stored User
\* with that id, with null profile fields when it has no Profile row, and
\* not-found when no User has that id; a lookup by email returns the merged
\* view of a stored User whose Profile has that email and not-found when
\* there is none; no lookup changes the cache or the connection.
C15_LookupMergedView ==
    LookupDone =>
        LET key == log[1].key
            view == log[1].result
            db == dbBefore
            matches ==
                IF log[1].op = "get_user_by_id"
                THEN {i \in 1..Len(db.users) : db.users[i].id = key}
                ELSE {i \in 1..Len(db.users) :
                         \E j \in 1..Len(db.user_profiles) :
                             /\ db.user_profiles[j].user_id = db.users[i].id
                             /\ db.user_profiles[j].email = key}
        IN  /\ conn = connBefore
            /\ conn.committed = dbBefore
            /\ conn.working = dbBefore
            /\ IF matches = {}
               THEN pc = "GetNotFound" /\ view = NullValue
               ELSE /\ pc = "GetDone"
                    /\ view.id \in {db.users[i].id : i \in matches}
                    /\ MergedView(db, view)

\* C15 witness: the lookup by id of a stored User without Profile row
\* returned its view
C15_Witness ==
    /\ LookupDone
    /\ pc = "GetDone"
    /\ log[1].op = "get_user_by_id"
    /\ RowsWith(dbBefore.users, UserPk, log[1].key) # <<>>
    /\ RowsWith(dbBefore.user_profiles, ProfilePk, log[1].key) = <<>>
    /\ log[1].result.status = "STAGED"

\* the primary-key order of the identifiers
IdRank == [id \in Ids |-> IF id = "u1" THEN 1 ELSE 2]

\* the views of the stored users in primary-key order
ViewsInKeyOrder(db) ==
    LET n == Len(db.users)
        at(k) == CHOOSE i \in 1..n :
                    Cardinality({j \in 1..n :
                        IdRank[db.users[j].id] < IdRank[db.users[i].id]})
                        = k - 1
    IN  [k \in 1..n |-> LeftJoin(db, db.users[at(k)])]

\* the window List(page, pageSize) of the claim
ListWindow(db, limit, page) ==
    LET all == ViewsInKeyOrder(db)
        n == Len(all)
    IN  [users |-> SubSeq(all, limit * (page - 1) + 1,
                          IF limit * page < n THEN limit * page ELSE n),
         total_users |-> n,
         total_pages |-> (n + limit - 1) \div limit]

\* C16 (list): List(page, pageSize) ends without error and returns the
\* window of the stored users in primary-key order with the total user
\* count and the total page count, an empty window for a page beyond the
\* last.
C16_ListWindow ==
    (args.cmd = "list" /\ ~args.export) =>
        /\ pc # "ListFailed"
        /\ log[1].outcome = "ok"
        /\ log[1].result = ListWindow(dbBefore, args.limit, args.page)

\* get of a single-record remote lookup has returned
LookupReturned ==
    /\ args.cmd = "get"
    /\ args.source = "api"
    /\ requested # <<>>
    /\ ~RequestFailed

\* C17 as claimed: a single-record remote lookup issues exactly one request
\* whatever continuation pointer the response carries, and returns the
\* first record of that page, or none when the page is empty.
C17_PageOneOnly ==
    (args.cmd = "get" /\ args.source = "api" /\ requested # <<>>) =>
        /\ Len(requested) = 1
        /\ ~RequestFailed =>
              log[1].result = IF served = <<>> THEN NullValue ELSE served[1]

\* C17 (amended): a single-record remote lookup issues one request when the
\* response carries no continuation pointer and otherwise follows the
\* pointers like the bulk fetch, one request per page; it returns the first
\* record of the accumulated pages, or none when they hold no record; a
\* failed request fails the lookup and leaves the cache as it was.
C17_LookupFollowsPointers ==
    /\ LookupReturned =>
          /\ \A i \in 1..Len(requested) :
                /\ requested[i].page = i
                /\ requested[i].next = IF i < Len(requested) THEN i + 1 ELSE 0
          /\ log[1].result = IF served = <<>> THEN NullValue ELSE served[1]
          /\ pc = "GetNotFound" <=> served = <<>>
          /\ notified.calls = 0
    /\ (args.cmd = "get" /\ args.source = "api" /\ RequestFailed) =>
          /\ pc = "GetFailed"
          /\ Len(log) = 1
          /\ conn = connBefore

\* C17 witness: the first page was empty and pointed to a second page, whose
\* first record of two was returned
C17_Witness ==
    /\ LookupReturned
    /\ pc = "GetDone"
    /\ Len(requested) = 2
    /\ Len(served) = 2
    /\ served[1] # served[2]
    /\ log[1].result = served[1]

\* the input of the update command is malformed
Malformed ==
    \/ Falsy(args.id)
    \/ args.profile.kind \in {"missing", "empty", "badjson"}

\* C18 (validation before effects): an update command without id, without
\* profile or with a profile that is not JSON is rejected with no remote
\* call and no repository call made and the connection untouched; no other
\* input is rejected.
C18_ValidationBeforeEffects ==
    args.cmd = "update" =>
        /\ Malformed =>
              /\ pc = "UpdateRejected"
              /\ log = <<>>
              /\ conn = connBefore
              /\ conn.committed = dbBefore
        /\ pc = "UpdateRejected" => Malformed

\* C18 witness: a profile that is not JSON was given for a stored user
C18_Witness ==
    /\ pc = "UpdateRejected"
    /\ args.profile = NotJson
    /\ RowsWith(conn.committed.user_profiles, ProfilePk, args.id) # <<>>

\* C19 (one-to-one User/Profile): in the committed cache every User row has
\* exactly one Profile row with its identifier and every Profile row has
\* its User row.
C19_OneToOne ==
    /\ \A i \in 1..Len(conn.committed.users) :
          Len(RowsWith(conn.committed.user_profiles, ProfilePk,
                       conn.committed.users[i].id)) = 1
    /\ \A j \in 1..Len(conn.committed.user_profiles) :
          RowsWith(conn.committed.users, UserPk,
                   conn.committed.user_profiles[j].user_id) # <<>>

\* a step of the running command failed: a remote or repository call raised,
\* or the input was rejected
OperationFailed ==
    \/ \E i \in 1..Len(log) : log[i].outcome \notin {"ok", "noop"}
    \/ args.cmd = "update" /\ Malformed
    \/ args.cmd = "reset-password" /\ Falsy(args.id)
    \/ args.cmd \in {"get", "delete"} /\ args.id = Null /\ args.email = Null

\* the positions in which a handler has returned to its caller normally
ReturnedNormally ==
    {"GetDone", "UpdateDone", "DeleteDone", "DeleteCancelled", "ResetReturned",
     "NoUsers", "Completed", "ListExported", "ListEmpty"}

\* C21 (error propagation): get, update, delete and password reset, and the
\* fetch of a sync pass, raise the first error of one of their steps to the
\* caller; none of them returns normally after a step has failed.
C21_ErrorPropagation ==
    /\ (args.cmd \in {"get", "update", "delete", "reset-password"}
           /\ OperationFailed) => pc \notin ReturnedNormally
    /\ (args.cmd = "sync" /\ RequestFailed) => pc = "FetchFailed"

\* C22 (update in both places): whenever the update command ends
\* successfully for id X and payload P, the remote update of X was made and
\* a following local lookup of X returns the value of P for every
\* allow-listed field P names.
C22_UpdateBoth ==
    (args.cmd = "update" /\ pc = "UpdateDone") =>
        LET P == args.profile.value
            view == get_user_by_id(conn.committed, args.id)
        IN  /\ log[1] = [op |-> "remote_update", id |-> args.id,
                         outcome |-> "ok"]
            /\ \A f \in Named(P) :
                  /\ view.kind = "dict"
                  /\ view.profile.f[f] = P.f[f]

C24_PageNormalization ==
    /\ pc = "Fetching" =>
          \A response \in Responses(url, Len(results)) :
              response.status = "ok" =>
                  LET it == GetIteration(results, response)
                      b == response.body
                  IN  /\ ~it.raised
                      /\ b.kind = "single" =>
                            it.results = results \o <<b.item>>
                      /\ b.kind = "list" => it.results = results \o b.items
                      /\ b = ListBody(<<>>) => it.results = results
    /\ Fetched =>
          /\ (\A i \in 1..Len(requested) : requested[i].body = "single")
                => Len(users) = Len(requested)
          /\ (Len(requested) = 1 /\ requested[1].body = "list"
                 /\ served = <<>>)
                => (users = <<>> /\ pc = "NoUsers")

\* C24 witness: a page with a single object was followed by a page with a
\* list of one record, and the result holds the two in that order
C24_Witness ==
    /\ Fetched
    /\ Len(requested) = 2
    /\ requested[1].body = "single"
    /\ requested[2].body = "list"
    /\ users = <<RecA2, RecA1>>

\* C25 (remote-first ordering): in the update and the delete command the
\* first call made is the remote one and the local write follows it; when
\* no remote call was made or the remote call failed, no local write was
\* made and the cache and the connection are what they were.
C25_RemoteFirst ==
    args.cmd \in {"update", "delete"} =>
        /\ log # <<>> =>
              log[1].op = IF args.cmd = "update" THEN "remote_update"
                          ELSE "remote_delete"
        /\ \A i \in 2..Len(log) : log[i].op = args.cmd
        /\ (log = <<>> \/ log[1].outcome # "ok") =>
              /\ Len(log) <= 1
              /\ conn = connBefore
              /\ conn.committed = dbBefore

\* C25 witness: the remote delete of a cached user failed and the user is
\* still in the cache
C25_Witness ==
    /\ args.cmd = "delete"
    /\ pc = "DeleteFailed"
    /\ Len(log) = 1
    /\ log[1].outcome = "error"
    /\ RowsWith(conn.committed.users, UserPk, log[1].id) # <<>>
    /\ RowsWith(conn.committed.user_profiles, ProfilePk, log[1].id) # <<>>

\* the answers that are 'y' once trimmed and lower-cased
Yes == {"y", " Y "}

\* the delete command has a target: the id given, or a cached user whose
\* profile has the email given
Resolved ==
    \/ args.id # Null
    \/ /\ args.email # Null
       /\ \E i \in 1..Len(dbBefore.users),
             j \in 1..Len(dbBefore.user_profiles) :
               /\ dbBefore.user_profiles[j].user_id = dbBefore.users[i].id
               /\ dbBefore.user_profiles[j].email = args.email

\* C26 (gated delete): the delete command makes a remote or a local delete
\* only when its target was resolved and the answer, trimmed and
\* lower-cased, is 'y'; otherwise it makes no call and leaves the cache and
\* the connection as they were, failing when there is no target and ending
\* as cancelled on any other answer.
C26_DeleteGated ==
    args.cmd = "delete" =>
        /\ log # <<>> => (Resolved /\ args.answer \in Yes)
        /\ ~(Resolved /\ args.answer \in Yes) =>
              /\ log = <<>>
              /\ conn = connBefore
              /\ conn.committed = dbBefore
        /\ ~Resolved => pc = "DeleteFailed"
        /\ (Resolved /\ args.answer \notin Yes) => pc = "DeleteCancelled"

\* C26 witness: the delete of a cached user found by email was answered
\* 'yes' and the user is still in the cache
C26_Witness ==
    /\ args.cmd = "delete"
    /\ pc = "DeleteCancelled"
    /\ args.id = Null
    /\ args.answer = "yes"
    /\ Resolved
    /\ conn.committed.users # <<>>

\* C27 (a failed upsert leaves nothing pending): after an upsert that
\* failed, for whatever reason, the connection holds no uncommitted write,
\* so that the commit of a later call cannot make a part of the failed
\* record durable.
C27_NoPendingWrite ==
    (LastUpsert /\ log[idx].outcome # "ok") => conn.working = conn.committed

\* C28 (placementOrg consistency): in the committed cache the placementOrg
\* of every User row equals the placementOrg of the Profile row of the same
\* identifier.
C28_PlacementOrgConsistent ==
    \A i \in 1..Len(conn.committed.users),
       j \in 1..Len(conn.committed.user_profiles) :
        conn.committed.user_profiles[j].user_id = conn.committed.users[i].id
            => conn.committed.users[i].placementOrg
                  = conn.committed.user_profiles[j].placementOrg

\* the remote was contacted / the last-check time was written
ContactedRemote == \E i \in 1..Len(log) : log[i].op = "get_latest_version"
FetchedLatest ==
    \E i \in 1..Len(log) :
        log[i].op = "get_latest_version" /\ log[i].outcome = "ok"
RecordedLastCheck ==
    \E i \in 1..Len(log) :
        log[i].op = "save_last_check_time" /\ log[i].outcome = "ok"

\* the call is made less than update_check_interval after the recorded check
WithinCooldown(config, now) ==
    /\ config.last_update_check.kind = "time"
    /\ now >= config.last_update_check.t
    /\ \/ config.update_check_interval.kind = "overflow"
       \/ now < config.last_update_check.t + config.update_check_interval.n

\* C29 (update-check cooldown): after a call of check_for_updates, a
\* non-forced call within the cooldown contacted no remote and returned None,
\* a forced call contacted the remote, and the last-check time was recorded
\* only if the latest version had been fetched.
C29_Cooldown ==
    (args.cmd = "check_for_updates" /\ pc # "Idle") =>
        /\ (~args.force /\ WithinCooldown(args.config, args.now)) =>
               (~ContactedRemote /\ pc = "CheckFoundNone")
        /\ args.force => ContactedRemote
        /\ RecordedLastCheck => FetchedLatest

====
